---- MODULE Spec2Model ----
(***************************************************************************)
(* Model of the monkey_rs bytecode compiler (src/src/compiler/mod.rs), the *)
(* stack VM (src/src/vm/mod.rs) and the tree-walking evaluator             *)
(* (src/src/eval/mod.rs).                                                  *)
(*                                                                         *)
(* The compiler is a set of recursive operators that thread a compiler     *)
(* record `c` the way the Rust methods thread `&mut self`; an Err result   *)
(* of a method is the field c.err, and `?` is the test Failed(c).          *)
(* Offsets are 0-based as in the source; TLA+ sequences are 1-based, so    *)
(* byte offset p of a stream is element p + 1.                             *)
(***************************************************************************)
EXTENDS Integers, Sequences, FiniteSets, TLC

(* ------------------------------ bounds --------------------------------- *)

\* integer literals of the generated programs range over -MaxInt..MaxInt
MaxInt == 1

\* a session constructs at most MaxCompilers compilers
MaxCompilers == 3

(* --------------------------- runtime values ---------------------------- *)

NoBytes == <<>>

Null == [kind |-> "Null", i |-> 0, s |-> <<>>, instructions |-> NoBytes, locals |-> 0, params |-> 0]

Integer(x) == [Null EXCEPT !.kind = "Integer", !.i = x]

Bool(b) == [Null EXCEPT !.kind = "Bool", !.i = IF b THEN 1 ELSE 0]

String(s) == [Null EXCEPT !.kind = "String", !.s = s]

CompiledFunc(ins, locals, params) == [Null EXCEPT !.kind = "CompiledFunc", !.instructions = ins, !.locals = locals, !.params = params]

\* Object::kind(): the variant of a value
kind(o) == o.kind

\* Object::is_truthy
is_truthy(o) == IF o.kind = "Null" THEN FALSE ELSE IF o.kind = "Bool" THEN o.i = 1 ELSE TRUE

(* ------------------------- instruction encoding ------------------------ *)

\* the opcode enumeration; the byte of an opcode is its position, from 0
OpNames == <<"Constant", "Pop", "Add", "Sub", "Mul", "Div", "Greater", "Eq", "NotEq", "Minus", "Bang", "True", "False", "Jump", "JumpNotTrue", "SetGlobal", "GetGlobal", "SetLocal", "GetLocal", "GetBuiltin", "Array", "Hash", "Index", "Call", "ReturnValue", "Return">>

Op(name) == (CHOOSE k \in 1..Len(OpNames) : OpNames[k] = name) - 1

OpName(b) == OpNames[b + 1]

WideOps == {"Constant", "Jump", "JumpNotTrue", "SetGlobal", "GetGlobal", "SetLocal", "GetLocal", "GetBuiltin", "Array", "Hash", "Call"}

\* number of operand bytes that follow the opcode byte
OperandWidth(b) == IF OpName(b) \in WideOps THEN 2 ELSE 0

\* a u16 operand, big-endian
U16Bytes(x) == << (x \div 256) % 256, x % 256 >>

\* Instruction::new(op, operands): the opcode and its encoded operands
Instruction(op, operands) == [op |-> op, bytes |-> <<op>> \o (IF OperandWidth(op) = 2 THEN U16Bytes(operands[1]) ELSE <<>>)]

\* Instruction::null(): Constant 0, the load of the Null sentinel
NullInstruction == Instruction(Op("Constant"), <<0>>)

\* Bytes::push
BytesPush(bytes, i) == bytes \o i.bytes

\* Bytes::patch: overwrite the instruction at offset pos
BytesPatch(bytes, pos, i) == [k \in 1..Len(bytes) |-> IF k > pos /\ k <= pos + Len(i.bytes) THEN i.bytes[k - pos] ELSE bytes[k]]

\* Bytes::remove: delete the instruction (opcode and operands) at offset pos
BytesRemove(bytes, pos) == LET w == 1 + OperandWidth(bytes[pos + 1]) IN SubSeq(bytes, 1, pos) \o SubSeq(bytes, pos + w + 1, Len(bytes))

\* Bytes::read::<u16>
ReadU16(bytes, pos) == bytes[pos + 1] * 256 + bytes[pos + 2]

(* ----------------------------- symbol table ---------------------------- *)

NoSymbol == [found |-> FALSE, name |-> "", scope |-> "Global", index |-> 0]

Symbol(name, scope, index) == [found |-> TRUE, name |-> name, scope |-> scope, index |-> index]

\* a frame: the symbols defined in it, in definition order, and its counters
EmptyFrame == [store |-> <<>>, num_definitions |-> 0, num_builtins |-> 0]

\* the table is the chain of frames, outermost first; `outer` of the
\* innermost frame is the prefix before it
define_builtin(table, name) == LET f == table[Len(table)] IN [table EXCEPT ![Len(table)] = [f EXCEPT !.store = Append(f.store, Symbol(name, "Builtin", f.num_builtins)), !.num_builtins = f.num_builtins + 1]]

Builtins == <<"len", "first", "last", "rest", "push", "puts">>

RECURSIVE DefineBuiltins(_, _)
DefineBuiltins(table, names) == IF names = <<>> THEN table ELSE DefineBuiltins(define_builtin(table, Head(names)), Tail(names))

\* SymbolTable::empty
SymbolTableEmpty == <<EmptyFrame>>

\* the symbol define() creates
DefinedSymbol(table, name) == LET f == table[Len(table)] IN Symbol(name, IF Len(table) = 1 THEN "Global" ELSE "Local", f.num_definitions)

define(table, name) == LET f == table[Len(table)] IN [table EXCEPT ![Len(table)] = [f EXCEPT !.store = Append(f.store, DefinedSymbol(table, name)), !.num_definitions = f.num_definitions + 1]]

\* the latest definition of name in one frame
FrameLookup(f, name) == LET hits == {k \in 1..Len(f.store) : f.store[k].name = name} IN IF hits = {} THEN NoSymbol ELSE f.store[CHOOSE k \in hits : \A j \in hits : j <= k]

RECURSIVE resolve(_, _)
resolve(table, name) == IF table = <<>> THEN NoSymbol ELSE LET s == FrameLookup(table[Len(table)], name) IN IF s.found THEN s ELSE resolve(SubSeq(table, 1, Len(table) - 1), name)

\* SymbolTable::symbols: the number of definitions of the current frame
symbols(table) == table[Len(table)].num_definitions

new_enclosed(table) == Append(table, EmptyFrame)

RECURSIVE DefineAll(_, _)
DefineAll(table, names) == IF names = <<>> THEN table ELSE DefineAll(define(table, Head(names)), Tail(names))

(* ------------------------------- the AST ------------------------------- *)

\* every node has the same fields; a node uses the ones of its variant
Node == [t |-> "Bool", n |-> 0, s |-> <<>>, operator |-> "", name |-> "", kids |-> <<>>, if_branch |-> <<>>, else_branch |-> <<>>, has_else |-> FALSE, params |-> <<>>, body |-> <<>>]

Number(x) == [Node EXCEPT !.t = "Number", !.n = x]

StringLit(s) == [Node EXCEPT !.t = "String", !.s = s]

BoolLit(b) == [Node EXCEPT !.t = "Bool", !.n = IF b THEN 1 ELSE 0]

Ident(name) == [Node EXCEPT !.t = "Ident", !.name = name]

Prefix(op, right) == [Node EXCEPT !.t = "Prefix", !.operator = op, !.kids = <<right>>]

Infix(left, op, right) == [Node EXCEPT !.t = "Infix", !.operator = op, !.kids = <<left, right>>]

If(condition, if_branch) == [Node EXCEPT !.t = "If", !.kids = <<condition>>, !.if_branch = if_branch]

IfElse(condition, if_branch, else_branch) == [Node EXCEPT !.t = "If", !.kids = <<condition>>, !.if_branch = if_branch, !.else_branch = else_branch, !.has_else = TRUE]

Func(params, body) == [Node EXCEPT !.t = "Func", !.params = params, !.body = body]

\* kids = the callee, then the arguments
Call(func, arguments) == [Node EXCEPT !.t = "Call", !.kids = <<func>> \o arguments]

ArrayLit(elements) == [Node EXCEPT !.t = "Array", !.kids = elements]

Index(left, index) == [Node EXCEPT !.t = "Index", !.kids = <<left, index>>]

\* kids = key1, value1, key2, value2, ... in source order
HashLit(flat_pairs) == [Node EXCEPT !.t = "Hash", !.kids = flat_pairs]

Let(ident, expr) == [t |-> "Let", ident |-> ident, expr |-> expr]

Return(expr) == [t |-> "Return", ident |-> "", expr |-> expr]

Expression(expr) == [t |-> "Expression", ident |-> "", expr |-> expr]

(* ------------------------------ the compiler --------------------------- *)

None == [some |-> FALSE, opcode |-> 0, pos |-> 0]

Emmited(opcode, pos) == [some |-> TRUE, opcode |-> opcode, pos |-> pos]

ScopeDefault == [instructions |-> NoBytes, last |-> None, prev |-> None]

\* history: how often last_is was evaluated and how often `last` did not
\* name the final instruction then; how often remove_last ran and how often
\* it removed something else than the trailing Pop
NoAudit == [evaluated |-> 0, stale |-> 0, removed |-> 0, not_pop |-> 0]

\* Compiler::default.  err is the Err of the running compile ("" fields: none);
\* ifs is a history of the if-expressions compiled so far and audit a history
\* of the uses of `last` (neither is program state)
CompilerDefault == [constants |-> <<Null>>, symbol_table |-> DefineBuiltins(SymbolTableEmpty, Builtins), scopes |-> <<ScopeDefault>>, err |-> <<>>, ifs |-> <<>>, audit |-> NoAudit]

\* mutant: the symbol table handed in is dropped for a new one
new_with_state_new_table(symbol_table, constants) == [CompilerDefault EXCEPT !.constants = constants]

new_with_state(symbol_table, constants) == [CompilerDefault EXCEPT !.symbol_table = symbol_table, !.constants = constants]

state(c) == [symbol_table |-> c.symbol_table, constants |-> c.constants]

Failed(c) == c.err # <<>>

Fail(c, msg) == [c EXCEPT !.err = msg]

current_scope(c) == c.scopes[Len(c.scopes)]

instructions(c) == current_scope(c).instructions

bytecode(c) == [instructions |-> current_scope(c).instructions, constants |-> c.constants]

add_constant(c, obj) == [c EXCEPT !.constants = Append(@, obj)]

\* the index add_constant returned, read after the call
LastConstant(c) == Len(c.constants) - 1

emit(c, i) ==
  LET s == current_scope(c)
      pos == Len(s.instructions)
  IN [c EXCEPT !.scopes[Len(c.scopes)] = [instructions |-> BytesPush(s.instructions, i), last |-> Emmited(i.op, pos), prev |-> s.last]]

last_is(c, op) == current_scope(c).last.some /\ current_scope(c).last.opcode = op

\* `last` names the final instruction of the scope's stream: its opcode is
\* the byte at pos and the instruction ends where the stream ends
LastAccurate(s) ==
  IF s.last.some
  THEN /\ s.last.pos < Len(s.instructions)
       /\ s.instructions[s.last.pos + 1] = s.last.opcode
       /\ s.last.pos + 1 + OperandWidth(s.last.opcode) = Len(s.instructions)
  ELSE s.instructions = NoBytes

\* history of one evaluation of last_is
Audited(c) == [c EXCEPT !.audit.evaluated = @ + 1, !.audit.stale = @ + (IF LastAccurate(current_scope(c)) THEN 0 ELSE 1)]

\* the stream is `rest` followed by one Pop
EndsInPop(bytes, rest) == bytes = rest \o <<Op("Pop")>>

remove_last(c) ==
  LET s == current_scope(c)
      rest == BytesRemove(s.instructions, s.last.pos)
  IN [c EXCEPT !.scopes[Len(c.scopes)] = [instructions |-> rest, last |-> s.prev, prev |-> s.prev],
               !.audit.removed = @ + 1,
               !.audit.not_pop = @ + (IF LastAccurate(s) /\ EndsInPop(s.instructions, rest) THEN 0 ELSE 1)]

patch(c, pos, i) == [c EXCEPT !.scopes[Len(c.scopes)].instructions = BytesPatch(@, pos, i)]

enter_scope(c) == [c EXCEPT !.scopes = Append(@, ScopeDefault), !.symbol_table = new_enclosed(@)]

leave_scope(c) == [c EXCEPT !.scopes = SubSeq(@, 1, Len(@) - 1), !.symbol_table = SubSeq(@, 1, Len(@) - 1)]

\* history: the stream an if-expression is compiled into: 0 is the top-level
\* stream, -d the function scope open at depth d, k > 0 the function stored
\* as constant k
OpenStream(c) == IF Len(c.scopes) = 1 THEN 0 ELSE 0 - Len(c.scopes)

LogIf(c, start, jmp_if, jmp_else, has_else) == [c EXCEPT !.ifs = Append(@, [stream |-> OpenStream(c), start |-> start, jmp_if |-> jmp_if, jmp_else |-> jmp_else, end |-> Len(instructions(c)), has_else |-> has_else])]

CloseStream(c, depth, idx) == [c EXCEPT !.ifs = [k \in 1..Len(c.ifs) |-> IF c.ifs[k].stream = 0 - depth THEN [c.ifs[k] EXCEPT !.stream = idx] ELSE c.ifs[k]]]

InfixOpcode(operator) ==
  CASE operator = "Plus" -> Op("Add")
    [] operator = "Minus" -> Op("Sub")
    [] operator = "Star" -> Op("Mul")
    [] operator = "Slash" -> Op("Div")
    [] operator = "Gt" -> Op("Greater")
    [] operator = "Eq" -> Op("Eq")
    [] operator = "NotEq" -> Op("NotEq")

\* `x?` followed by the rest of the method: an Err is returned at once
Try(c, rest(_)) == IF Failed(c) THEN c ELSE rest(c)

\* `let c1 = x;` followed by the rest of the method
With(c, rest(_)) == rest(c)

\* mutant: the last instruction of a block is removed whatever it is
drop_pop_unchecked(c) == IF current_scope(c).last.some THEN remove_last(Audited(c)) ELSE Audited(c)

\* `if self.last_is(OpCode::Pop) { self.remove_last(); }`
drop_pop(c) == IF last_is(c, Op("Pop")) THEN remove_last(Audited(c)) ELSE Audited(c)

RECURSIVE compile_stmt(_, _)
RECURSIVE compile_expr(_, _)
RECURSIVE compile_block(_, _)
RECURSIVE compile_exprs(_, _)
RECURSIVE compile_func(_, _)
RECURSIVE compile_if(_, _)
RECURSIVE compile_prefix(_, _)
RECURSIVE compile_infix(_, _)
RECURSIVE compile_infix_normal(_, _)
RECURSIVE compile_infix_rev(_, _)

compile_block(c, block) ==
  IF block = <<>> THEN c
  ELSE Try(compile_stmt(c, Head(block)), LAMBDA c1 : compile_block(c1, Tail(block)))

\* `for e in exprs { self.compile_expr(e)?; }`: the expressions in order,
\* here the first half of them and then the second half
compile_exprs(c, exprs) ==
  IF exprs = <<>> THEN c
  ELSE IF Len(exprs) = 1 THEN compile_expr(c, exprs[1])
  ELSE Try(compile_exprs(c, SubSeq(exprs, 1, Len(exprs) \div 2)), LAMBDA c1 :
         compile_exprs(c1, SubSeq(exprs, Len(exprs) \div 2 + 1, Len(exprs))))

\* mutant: a let always stores to a global slot
emit_set_always_global(c, sym) == emit(c, Instruction(Op("SetGlobal"), <<sym.index>>))

\* Statement::Let, after the initializer: define, then SetGlobal or SetLocal
emit_set(c, sym) ==
  IF sym.scope = "Global" THEN emit(c, Instruction(Op("SetGlobal"), <<sym.index>>))
  ELSE emit(c, Instruction(Op("SetLocal"), <<sym.index>>))

\* mutant: an expression statement leaves its value on the stack
compile_stmt_no_pop(c, stmt) ==
  Try(compile_expr(c, stmt.expr), LAMBDA c1 :
    CASE stmt.t = "Let" -> emit_set([c1 EXCEPT !.symbol_table = define(@, stmt.ident)], DefinedSymbol(c1.symbol_table, stmt.ident))
      [] stmt.t = "Return" -> emit(c1, Instruction(Op("ReturnValue"), <<>>))
      [] stmt.t = "Expression" -> c1)

\* mutant: a let defines its name before its initializer is compiled
compile_stmt_define_first(c, stmt) ==
  IF stmt.t = "Let"
  THEN Try(compile_expr([c EXCEPT !.symbol_table = define(@, stmt.ident)], stmt.expr), LAMBDA c1 :
         emit_set(c1, resolve(c1.symbol_table, stmt.ident)))
  ELSE Try(compile_expr(c, stmt.expr), LAMBDA c1 :
         IF stmt.t = "Return" THEN emit(c1, Instruction(Op("ReturnValue"), <<>>))
         ELSE emit(c1, Instruction(Op("Pop"), <<>>)))

compile_stmt(c, stmt) ==
  Try(compile_expr(c, stmt.expr), LAMBDA c1 :
    CASE stmt.t = "Let" -> emit_set([c1 EXCEPT !.symbol_table = define(@, stmt.ident)], DefinedSymbol(c1.symbol_table, stmt.ident))
      [] stmt.t = "Return" -> emit(c1, Instruction(Op("ReturnValue"), <<>>))
      [] stmt.t = "Expression" -> emit(c1, Instruction(Op("Pop"), <<>>)))

compile_prefix(c, p) ==
  Try(compile_expr(c, p.kids[1]), LAMBDA c1 :
    IF p.operator = "Minus" THEN emit(c1, Instruction(Op("Minus"), <<>>))
    ELSE emit(c1, Instruction(Op("Bang"), <<>>)))

\* mutant: the operands are compiled right to left
compile_infix_normal_swapped(c, i) ==
  Try(compile_expr(c, i.kids[2]), LAMBDA c1 :
  Try(compile_expr(c1, i.kids[1]), LAMBDA c2 :
    emit(c2, Instruction(InfixOpcode(i.operator), <<>>))))

compile_infix_normal(c, i) ==
  Try(compile_expr(c, i.kids[1]), LAMBDA c1 :
  Try(compile_expr(c1, i.kids[2]), LAMBDA c2 :
    emit(c2, Instruction(InfixOpcode(i.operator), <<>>))))

\* mutant: `<` lowered to Greater without reversing the operands
compile_infix_rev_unreversed(c, i) ==
  Try(compile_expr(c, i.kids[1]), LAMBDA c1 :
  Try(compile_expr(c1, i.kids[2]), LAMBDA c2 :
    emit(c2, Instruction(Op("Greater"), <<>>))))

compile_infix_rev(c, i) ==
  Try(compile_expr(c, i.kids[2]), LAMBDA c1 :
  Try(compile_expr(c1, i.kids[1]), LAMBDA c2 :
    emit(c2, Instruction(Op("Greater"), <<>>))))

compile_infix(c, i) == IF i.operator = "Lt" THEN compile_infix_rev(c, i) ELSE compile_infix_normal(c, i)

\* mutant: JumpNotTrue is patched before the Jump is emitted
compile_if_early_patch(c, e) ==
  Try(compile_expr(c, e.kids[1]), LAMBDA c1 :
  Try(compile_block(emit(c1, Instruction(Op("JumpNotTrue"), <<9999>>)), e.if_branch), LAMBDA c3 :
  With(drop_pop(c3), LAMBDA c4 :
  With(patch(c4, Len(instructions(c1)), Instruction(Op("JumpNotTrue"), <<Len(instructions(c4))>>)), LAMBDA c5 :
  With(emit(c5, Instruction(Op("Jump"), <<9999>>)), LAMBDA c6 :
  Try(IF e.has_else THEN compile_block(c6, e.else_branch) ELSE emit(c6, NullInstruction), LAMBDA c7 :
  With(IF e.has_else THEN drop_pop(c7) ELSE c7, LAMBDA c8 :
  With(patch(c8, Len(instructions(c4)), Instruction(Op("Jump"), <<Len(instructions(c8))>>)), LAMBDA c9 :
    LogIf(c9, Len(instructions(c)), Len(instructions(c1)), Len(instructions(c4)), e.has_else)))))))))

\* compile_expr, the arm Expression::If.  jmp_if = Len(instructions(c1)) and
\* jmp_else = Len(instructions(c4)) are the positions the two emits return
compile_if(c, e) ==
  Try(compile_expr(c, e.kids[1]), LAMBDA c1 :
  Try(compile_block(emit(c1, Instruction(Op("JumpNotTrue"), <<9999>>)), e.if_branch), LAMBDA c3 :
  With(drop_pop(c3), LAMBDA c4 :
  With(emit(c4, Instruction(Op("Jump"), <<9999>>)), LAMBDA c5 :
  With(patch(c5, Len(instructions(c1)), Instruction(Op("JumpNotTrue"), <<Len(instructions(c5))>>)), LAMBDA c6 :
  Try(IF e.has_else THEN compile_block(c6, e.else_branch) ELSE emit(c6, NullInstruction), LAMBDA c7 :
  With(IF e.has_else THEN drop_pop(c7) ELSE c7, LAMBDA c8 :
  With(patch(c8, Len(instructions(c4)), Instruction(Op("Jump"), <<Len(instructions(c8))>>)), LAMBDA c9 :
    LogIf(c9, Len(instructions(c)), Len(instructions(c1)), Len(instructions(c4)), e.has_else)))))))))

\* `if self.last_is(OpCode::Pop) { self.remove_last(); self.emit(ReturnValue); }`
pop_to_return(c) == IF last_is(c, Op("Pop")) THEN emit(remove_last(Audited(c)), Instruction(Op("ReturnValue"), <<>>)) ELSE Audited(c)

\* mutant: no Return is emitted for a body that does not end in ReturnValue
ensure_return_skipped(c) == Audited(c)

\* `if !self.last_is(OpCode::ReturnValue) { self.emit(Return); }`
ensure_return(c) == IF ~last_is(c, Op("ReturnValue")) THEN emit(Audited(c), Instruction(Op("Return"), <<>>)) ELSE Audited(c)

\* mutant: the parameters are defined before the function's frame is entered
compile_func_params_outside(c, f) ==
  Try(compile_block(enter_scope([c EXCEPT !.symbol_table = DefineAll(@, f.params)]), f.body), LAMBDA c3 :
  With(ensure_return(pop_to_return(c3)), LAMBDA c5 :
  With(add_constant(leave_scope(c5), CompiledFunc(instructions(c5), symbols(c5.symbol_table), Len(f.params))), LAMBDA c6 :
    CloseStream(c6, Len(c5.scopes), LastConstant(c6)))))

\* the index compile_func returns is LastConstant of its result
compile_func(c, f) ==
  Try(compile_block([enter_scope(c) EXCEPT !.symbol_table = DefineAll(@, f.params)], f.body), LAMBDA c3 :
  With(ensure_return(pop_to_return(c3)), LAMBDA c5 :
  With(add_constant(leave_scope(c5), CompiledFunc(instructions(c5), symbols(c5.symbol_table), Len(f.params))), LAMBDA c6 :
    CloseStream(c6, Len(c5.scopes), LastConstant(c6)))))

\* Expression::Ident, after resolve
emit_get(c, sym) ==
  IF sym.scope = "Global" THEN emit(c, Instruction(Op("GetGlobal"), <<sym.index>>))
  ELSE IF sym.scope = "Local" THEN emit(c, Instruction(Op("GetLocal"), <<sym.index>>))
  ELSE emit(c, Instruction(Op("GetBuiltin"), <<sym.index>>))

\* `let idx = self.add_constant(obj); self.emit(Constant idx)`
emit_constant(c1) == emit(c1, Instruction(Op("Constant"), <<LastConstant(c1)>>))

compile_expr(c, expr) ==
  CASE expr.t = "Ident" ->
         IF ~resolve(c.symbol_table, expr.name).found THEN Fail(c, <<"undefined symbol", expr.name>>)
         ELSE emit_get(c, resolve(c.symbol_table, expr.name))
    [] expr.t = "Number" -> emit_constant(add_constant(c, Integer(expr.n)))
    [] expr.t = "String" -> emit_constant(add_constant(c, String(expr.s)))
    [] expr.t = "Prefix" -> compile_prefix(c, expr)
    [] expr.t = "Infix" -> compile_infix(c, expr)
    [] expr.t = "Bool" ->
         IF expr.n = 1 THEN emit(c, Instruction(Op("True"), <<>>)) ELSE emit(c, Instruction(Op("False"), <<>>))
    [] expr.t = "If" -> compile_if(c, expr)
    [] expr.t = "Func" -> Try(compile_func(c, expr), LAMBDA c1 : emit_constant(c1))
    [] expr.t = "Call" -> Try(compile_exprs(c, expr.kids), LAMBDA c1 : emit(c1, Instruction(Op("Call"), <<Len(expr.kids) - 1>>)))
    [] expr.t = "Array" -> Try(compile_exprs(c, expr.kids), LAMBDA c1 : emit(c1, Instruction(Op("Array"), <<Len(expr.kids)>>)))
    [] expr.t = "Index" -> Try(compile_exprs(c, expr.kids), LAMBDA c1 : emit(c1, Instruction(Op("Index"), <<>>)))
    [] expr.t = "Hash" -> Try(compile_exprs(c, expr.kids), LAMBDA c1 : emit(c1, Instruction(Op("Hash"), <<Len(expr.kids) \div 2>>)))

\* Compiler::compile
compile(c, program) == compile_block(c, program)

\* the instructions of a stream, decoded: <<offset, opcode name, operand>>
RECURSIVE Decode(_, _)
Decode(bytes, pos) ==
  IF pos >= Len(bytes) THEN <<>>
  ELSE LET b == bytes[pos + 1]
       IN <<[pos |-> pos, op |-> OpName(b), operand |-> IF OperandWidth(b) = 2 THEN ReadU16(bytes, pos + 1) ELSE 0]>> \o Decode(bytes, pos + 1 + OperandWidth(b))

(* -------------------------------- the VM ------------------------------- *)

STACK_SIZE == 2048

NoMsg == [text |-> "", left |-> Null, op |-> 0, right |-> Null]

StackOverflowMsg == [NoMsg EXCEPT !.text = "Stack overflow"]

\* format!("unknown operation: {} {} {}", left, op, right)
UnknownOperation(left, op, right) == [text |-> "unknown operation", left |-> left, op |-> op, right |-> right]

\* Vm::new.  stack holds the slots written so far; every slot from
\* Len(stack) up to STACK_SIZE - 1 still holds the Null of construction.
\* ip is the local of run(); result is "running" until run() returns Ok or
\* Err or the thread panics; peak is the history of the highest sp.
Vm_new(b) == [instructions |-> b.instructions, constants |-> b.constants, stack |-> <<>>, sp |-> 0, ip |-> 0, result |-> "running", msg |-> NoMsg, peak |-> 0]

\* self.stack[k]
StackAt(vm, k) == IF k < Len(vm.stack) THEN vm.stack[k + 1] ELSE Null

\* self.stack[k] = obj
StackSet(stack, k, obj) ==
  IF k < Len(stack) THEN [stack EXCEPT ![k + 1] = obj]
  ELSE IF k = Len(stack) THEN Append(stack, obj)
  ELSE [j \in 1..(k + 1) |-> IF j = k + 1 THEN obj ELSE IF j <= Len(stack) THEN stack[j] ELSE Null]

Max(a, b) == IF a >= b THEN a ELSE b

\* mutant: the bound of the stack is tested with > instead of >=
push_off_by_one(vm, obj) ==
  IF vm.sp > STACK_SIZE THEN [vm EXCEPT !.result = "Err", !.msg = StackOverflowMsg]
  ELSE [vm EXCEPT !.stack = StackSet(@, vm.sp, obj), !.sp = @ + 1, !.peak = Max(@, vm.sp + 1)]

push(vm, obj) ==
  IF vm.sp >= STACK_SIZE THEN [vm EXCEPT !.result = "Err", !.msg = StackOverflowMsg]
  ELSE [vm EXCEPT !.stack = StackSet(@, vm.sp, obj), !.sp = @ + 1, !.peak = Max(@, vm.sp + 1)]

\* the value pop() returns; sp = 0 indexes out of bounds
PopPanics(vm) == vm.sp = 0

Popped(vm) == StackAt(vm, vm.sp - 1)

pop(vm) == IF PopPanics(vm) THEN [vm EXCEPT !.result = "panic"] ELSE [vm EXCEPT !.sp = @ - 1]

\* i64 division truncates toward zero
TruncDiv(a, b) ==
  LET abs(x) == IF x < 0 THEN 0 - x ELSE x
      q == abs(a) \div abs(b)
  IN IF (a < 0) = (b < 0) THEN q ELSE 0 - q

\* mutant: Eq and NotEq compare operands of different kinds, as the evaluator does
execute_bin_op_any_kind(vm, op) ==
  LET right == Popped(vm)
      vm1 == pop(vm)
      left == Popped(vm1)
      vm2 == pop(vm1)
      name == OpName(op)
  IN IF vm1.result = "panic" THEN vm1
     ELSE IF vm2.result = "panic" THEN vm2
     ELSE IF left.kind = "Integer" /\ right.kind = "Integer"
     THEN CASE name = "Add" -> push(vm2, Integer(left.i + right.i))
            [] name = "Sub" -> push(vm2, Integer(left.i - right.i))
            [] name = "Mul" -> push(vm2, Integer(left.i * right.i))
            [] name = "Div" -> IF right.i = 0 THEN [vm2 EXCEPT !.result = "panic"] ELSE push(vm2, Integer(TruncDiv(left.i, right.i)))
            [] name = "Eq" -> push(vm2, Bool(left.i = right.i))
            [] name = "NotEq" -> push(vm2, Bool(left.i # right.i))
            [] name = "Greater" -> push(vm2, Bool(left.i > right.i))
     ELSE CASE name = "Eq" -> push(vm2, Bool(left = right))
            [] name = "NotEq" -> push(vm2, Bool(left # right))
            [] OTHER -> [vm2 EXCEPT !.result = "Err", !.msg = UnknownOperation(left, op, right)]

execute_bin_op(vm, op) ==
  LET right == Popped(vm)
      vm1 == pop(vm)
      left == Popped(vm1)
      vm2 == pop(vm1)
      name == OpName(op)
  IN IF vm1.result = "panic" THEN vm1
     ELSE IF vm2.result = "panic" THEN vm2
     ELSE IF left.kind = "Integer" /\ right.kind = "Integer"
     THEN CASE name = "Add" -> push(vm2, Integer(left.i + right.i))
            [] name = "Sub" -> push(vm2, Integer(left.i - right.i))
            [] name = "Mul" -> push(vm2, Integer(left.i * right.i))
            [] name = "Div" -> IF right.i = 0 THEN [vm2 EXCEPT !.result = "panic"] ELSE push(vm2, Integer(TruncDiv(left.i, right.i)))
            [] name = "Eq" -> push(vm2, Bool(left.i = right.i))
            [] name = "NotEq" -> push(vm2, Bool(left.i # right.i))
            [] name = "Greater" -> push(vm2, Bool(left.i > right.i))
     ELSE IF kind(left) = kind(right)
     THEN CASE name = "Eq" -> push(vm2, Bool(left = right))
            [] name = "NotEq" -> push(vm2, Bool(left # right))
            [] OTHER -> [vm2 EXCEPT !.result = "Err", !.msg = UnknownOperation(left, op, right)]
     ELSE [vm2 EXCEPT !.result = "Err", !.msg = UnknownOperation(left, op, right)]

BinOps == {"Add", "Sub", "Mul", "Div", "Greater", "Eq", "NotEq"}

\* the opcode the loop of run() reads next
NextOp(vm) == OpName(vm.instructions[vm.ip + 1])

\* the arms of the match of run(), each with the ip += of the iteration
run_return(vm) == [vm EXCEPT !.result = "Ok"]

run_constant(vm) ==
  LET const_idx == ReadU16(vm.instructions, vm.ip + 1)
  IN IF const_idx >= Len(vm.constants) THEN [vm EXCEPT !.result = "panic"]
     ELSE LET vm1 == push(vm, vm.constants[const_idx + 1])
          IN IF vm1.result = "Err" THEN vm1 ELSE [vm1 EXCEPT !.ip = vm.ip + 3]

run_bin_op(vm) ==
  LET vm1 == execute_bin_op(vm, vm.instructions[vm.ip + 1])
  IN IF vm1.result = "running" THEN [vm1 EXCEPT !.ip = vm.ip + 1] ELSE vm1

run_pop(vm) ==
  LET vm1 == pop(vm)
  IN IF vm1.result = "running" THEN [vm1 EXCEPT !.ip = vm.ip + 1] ELSE vm1

run_push_bool(vm, b) ==
  LET vm1 == push(vm, Bool(b))
  IN IF vm1.result = "Err" THEN vm1 ELSE [vm1 EXCEPT !.ip = vm.ip + 1]

run_todo(vm) == [vm EXCEPT !.ip = vm.ip + 1, !.result = "panic"]

\* one test of the loop condition of run() and, if it holds, one iteration
run_iteration(vm) ==
  IF vm.ip >= Len(vm.instructions) THEN run_return(vm)
  ELSE CASE NextOp(vm) = "Constant" -> run_constant(vm)
         [] NextOp(vm) \in BinOps -> run_bin_op(vm)
         [] NextOp(vm) = "Pop" -> run_pop(vm)
         [] NextOp(vm) = "True" -> run_push_bool(vm, TRUE)
         [] NextOp(vm) = "False" -> run_push_bool(vm, FALSE)
         [] OTHER -> run_todo(vm)

\* up to n iterations, until run() has returned or panicked: the first
\* half of them and then the second half
RECURSIVE run_iterations(_, _)
run_iterations(vm, n) ==
  IF vm.result # "running" \/ n = 0 THEN vm
  ELSE IF n = 1 THEN run_iteration(vm)
  ELSE run_iterations(run_iterations(vm, n \div 2), n - n \div 2)

\* Vm::last_popped
last_popped(vm) == StackAt(vm, vm.sp)

\* Vm::stack_top; None is found = FALSE
stack_top(vm) == IF vm.sp = 0 THEN [found |-> FALSE, obj |-> Null] ELSE [found |-> TRUE, obj |-> StackAt(vm, vm.sp - 1)]

(* ----------------------------- the evaluator --------------------------- *)

\* An EvalResult with the environment after the evaluation: status "Ok"
\* (val; ret says it is wrapped in Obj::Return), "Err", "panic", or
\* "unmodelled" for the expressions left out here (functions, calls,
\* built-ins, arrays, hashes, index)
EvalOk(val, env) == [status |-> "Ok", val |-> val, ret |-> FALSE, env |-> env]

EvalStop(status, env) == [status |-> status, val |-> Null, ret |-> FALSE, env |-> env]

\* Environment::get on the one global environment: the latest binding
EnvGet(env, name) ==
  LET hits == {k \in 1..Len(env) : env[k].name = name}
  IN IF hits = {} THEN [found |-> FALSE, val |-> Null] ELSE [found |-> TRUE, val |-> env[CHOOSE k \in hits : \A j \in hits : j <= k].val]

EnvSet(env, name, val) == Append(env, [name |-> name, val |-> val])

eval_integer_infix_op(left, op, right, env) ==
  CASE op = "Plus" -> EvalOk(Integer(left + right), env)
    [] op = "Minus" -> EvalOk(Integer(left - right), env)
    [] op = "Star" -> EvalOk(Integer(left * right), env)
    [] op = "Slash" -> IF right = 0 THEN EvalStop("panic", env) ELSE EvalOk(Integer(TruncDiv(left, right)), env)
    [] op = "Lt" -> EvalOk(Bool(left < right), env)
    [] op = "Gt" -> EvalOk(Bool(left > right), env)
    [] op = "Eq" -> EvalOk(Bool(left = right), env)
    [] op = "NotEq" -> EvalOk(Bool(left # right), env)

eval_string_infix_op(left, op, right, env) ==
  CASE op = "Plus" -> EvalOk(String(left \o right), env)
    [] op = "Eq" -> EvalOk(Bool(left = right), env)
    [] op = "NotEq" -> EvalOk(Bool(left # right), env)
    [] OTHER -> EvalStop("Err", env)

eval_infix(left, op, right, env) ==
  IF left.kind = "Integer" /\ right.kind = "Integer" THEN eval_integer_infix_op(left.i, op, right.i, env)
  ELSE IF left.kind = "String" /\ right.kind = "String" THEN eval_string_infix_op(left.s, op, right.s, env)
  ELSE IF op = "Eq" THEN EvalOk(Bool(left = right), env)
  ELSE IF op = "NotEq" THEN EvalOk(Bool(left # right), env)
  ELSE EvalStop("Err", env)

eval_bang_op(value, env) == EvalOk(Bool(~is_truthy(value)), env)

eval_minus_op(value, env) == IF value.kind = "Integer" THEN EvalOk(Integer(0 - value.i), env) ELSE EvalStop("Err", env)

eval_prefix(op, right, env) == IF op = "Bang" THEN eval_bang_op(right, env) ELSE eval_minus_op(right, env)

\* an Obj::Return that reaches an operator, a condition or a binding is
\* outside the modelled fragment
Unwrapped(r) == IF r.status = "Ok" /\ r.ret THEN EvalStop("unmodelled", r.env) ELSE r

RECURSIVE eval_stmt(_, _)
RECURSIVE eval_expr(_, _)
RECURSIVE eval_block(_, _)

eval_block(block, env) ==
  IF block = <<>> THEN EvalOk(Null, env)
  ELSE LET res == eval_stmt(Head(block), env)
       IN IF res.status # "Ok" \/ res.ret \/ Len(block) = 1 THEN res ELSE eval_block(Tail(block), res.env)

eval_stmt(stmt, env) ==
  LET val == IF stmt.t = "Expression" THEN eval_expr(stmt.expr, env) ELSE Unwrapped(eval_expr(stmt.expr, env))
  IN IF val.status # "Ok" THEN val
     ELSE CASE stmt.t = "Let" -> EvalOk(Null, EnvSet(val.env, stmt.ident, val.val))
            [] stmt.t = "Return" -> [val EXCEPT !.ret = TRUE]
            [] stmt.t = "Expression" -> val

eval_expr(e, env) ==
  CASE e.t = "Ident" ->
         LET r == EnvGet(env, e.name)
         IN IF r.found THEN EvalOk(r.val, env)
            ELSE IF \E k \in 1..Len(Builtins) : Builtins[k] = e.name THEN EvalStop("unmodelled", env)
            ELSE EvalStop("Err", env)
    [] e.t = "Number" -> EvalOk(Integer(e.n), env)
    [] e.t = "String" -> EvalOk(String(e.s), env)
    [] e.t = "Prefix" ->
         LET right == Unwrapped(eval_expr(e.kids[1], env))
         IN IF right.status # "Ok" THEN right ELSE eval_prefix(e.operator, right.val, right.env)
    [] e.t = "Infix" ->
         LET left == Unwrapped(eval_expr(e.kids[1], env))
         IN IF left.status # "Ok" THEN left
            ELSE LET right == Unwrapped(eval_expr(e.kids[2], left.env))
                 IN IF right.status # "Ok" THEN right ELSE eval_infix(left.val, e.operator, right.val, right.env)
    [] e.t = "Bool" -> EvalOk(Bool(e.n = 1), env)
    [] e.t = "If" ->
         LET cond == Unwrapped(eval_expr(e.kids[1], env))
         IN IF cond.status # "Ok" THEN cond
            ELSE IF is_truthy(cond.val) THEN eval_block(e.if_branch, cond.env)
            ELSE IF e.has_else THEN eval_block(e.else_branch, cond.env)
            ELSE EvalOk(Null, cond.env)
    [] OTHER -> EvalStop("unmodelled", env)

\* eval_program: a Return value is unwrapped
eval_program(prog, env) ==
  LET res == eval_block(prog, env)
  IN IF res.status = "Ok" THEN [res EXCEPT !.ret = FALSE] ELSE res

(* ------------------------------ the programs --------------------------- *)

Ints == (0 - MaxInt)..MaxInt

Atoms == {Number(n) : n \in Ints} \cup {BoolLit(TRUE), BoolLit(FALSE), StringLit(<<"a">>), StringLit(<<"b">>)}

InfixOps == {"Plus", "Minus", "Star", "Slash", "Lt", "Gt", "Eq", "NotEq"}

\* operands of the generated infix expressions: the atoms and some compound expressions
Operands == Atoms \cup {Infix(Number(1), "Lt", Number(0)), Infix(Number(1), "Minus", Number(0)), Func(<<>>, <<>>)}

InfixPrograms == {<<Expression(Infix(l, op, r))>> : l \in Operands, op \in InfixOps, r \in Operands}

PrefixPrograms == {<<Expression(Prefix(op, x))>> : op \in {"Minus", "Bang"}, x \in Atoms}

Conditions == {BoolLit(TRUE), BoolLit(FALSE), Number(1), Infix(Number(1), "Lt", Number(0))}

Blocks == { <<>>,
            <<Expression(Number(10))>>,
            <<Let("x", Number(1))>>,
            <<Expression(Number(1)), Expression(Number(0))>>,
            <<Let("x", Number(1)), Expression(Ident("x"))>>,
            <<Expression(If(BoolLit(TRUE), <<Expression(Number(10))>>))>>,
            <<Expression(IfElse(BoolLit(FALSE), <<Expression(Number(10))>>, <<Expression(Number(0))>>))>>,
            <<Return(Number(1))>> }

IfExprs == {If(c, b) : c \in Conditions, b \in Blocks} \cup {IfElse(c, b1, b2) : c \in Conditions, b1 \in Blocks, b2 \in Blocks}

IfPrograms == {<<Expression(e)>> : e \in IfExprs} \cup {<<Expression(e), Expression(Number(3333))>> : e \in IfExprs} \cup {<<Let("y", e), Expression(Ident("y"))>> : e \in IfExprs}

Bodies == Blocks \cup { <<Expression(Ident("a"))>>,
                        <<Expression(IfElse(BoolLit(TRUE), <<Return(Number(1))>>, <<Return(Number(0))>>))>>,
                        <<Let("x", Number(1)), Return(Ident("x"))>>,
                        <<Expression(Func(<<"b">>, <<Expression(Ident("b"))>>))>>,
                        <<Expression(Infix(Ident("a"), "Plus", Ident("b")))>>,
                        <<Expression(Ident("undefined"))>> }

Params == {<<>>, <<"a">>, <<"a", "b">>}

FuncExprs == {Func(ps, b) : ps \in Params, b \in Bodies}

FuncPrograms == {<<Expression(f)>> : f \in FuncExprs} \cup {<<Expression(Number(1)), Expression(f)>> : f \in FuncExprs} \cup {<<Let("f", f), Expression(Call(Ident("f"), <<Number(1)>>))>> : f \in FuncExprs}

OtherPrograms == { <<>>,
                   <<Expression(Number(1)), Expression(Number(0))>>,
                   <<Let("x", Number(1)), Expression(Ident("x"))>>,
                   <<Let("x", Number(5)), Expression(Ident("x"))>>,
                   <<Let("x", Number(1))>>,
                   <<Let("x", Number(1)), Let("y", Number(0)), Expression(Infix(Ident("x"), "Plus", Ident("y")))>>,
                   <<Expression(Ident("undefined")), Expression(Number(1))>>,
                   <<Let("x", Number(1)), Expression(Ident("zz")), Expression(Number(3333))>>,
                   <<Expression(Infix(Ident("p"), "Lt", Ident("q")))>>,
                   <<Expression(Infix(Ident("p"), "Plus", Ident("q")))>>,
                   <<Let("x", Ident("x"))>>,
                   <<Expression(Func(<<>>, <<Expression(If(BoolLit(TRUE), <<Expression(If(BoolLit(TRUE), <<Expression(Number(10))>>))>>))>>))>>,
                   <<Expression(Func(<<"a">>, <<Expression(Func(<<"b">>, <<Expression(Ident("a"))>>))>>))>>,
                   <<Expression(Func(<<"a">>, <<Expression(Ident("a"))>>)), Expression(Ident("a"))>>,
                   <<Expression(Func(<<>>, <<Let("x", Number(1))>>)), Expression(Ident("x"))>>,
                   <<Let("f", Func(<<>>, <<Expression(Call(Ident("f"), <<>>))>>))>>,
                   <<Expression(ArrayLit(<<Number(1), Number(0)>>))>>,
                   <<Expression(Index(ArrayLit(<<Number(1)>>), Number(0)))>>,
                   <<Expression(HashLit(<<Number(1), BoolLit(TRUE)>>))>>,
                   <<Expression(Call(Ident("len"), <<StringLit(<<"a">>)>>))>>,
                   <<Return(Number(1))>>,
                   <<Expression(Infix(Number(1), "Lt", Number(2)))>>,
                   <<Expression(Infix(Infix(Number(1), "Plus", Number(1)), "Star", Infix(Number(1), "Minus", Number(0))))>> }

Programs == InfixPrograms \cup PrefixPrograms \cup IfPrograms \cup FuncPrograms \cup OtherPrograms

\* the programs of a session, compiled one after the other
ReplPrograms == { <<Let("x", Number(1))>>,
                  <<Let("y", Ident("x"))>>,
                  <<Expression(Ident("x"))>>,
                  <<Expression(Ident("y"))>>,
                  <<Expression(Infix(Number(1), "Plus", Number(1)))>>,
                  <<Expression(If(BoolLit(TRUE), <<Expression(BoolLit(FALSE))>>))>>,
                  <<Expression(BoolLit(FALSE))>>,
                  <<Expression(Func(<<"a">>, <<Expression(Ident("x"))>>))>> }

\* n times the literal true
Trues(n) == [k \in 1..n |-> BoolLit(TRUE)]

\* programs whose run fills the stack: an array literal of STACK_SIZE + 1
\* elements, each pushed before Array is executed; and some short programs
DeepPrograms == { <<Expression(ArrayLit(Trues(STACK_SIZE + 1)))>>,
                  <<Expression(Infix(Number(1), "Plus", Number(1)))>>,
                  <<Expression(Prefix("Minus", Number(1)))>>,
                  <<Expression(BoolLit(TRUE))>>,
                  <<Expression(BoolLit(FALSE))>> }

\* constants vectors a caller hands to new_with_state
CallerConstants == {<<>>, <<Integer(7)>>}

RECURSIVE LetNamesOfBlock(_)
RECURSIVE LetNamesOfExprs(_)

\* the names the lets of a block define in the frame of the block, in
\* compile order: a let's initializer comes before its name, the right
\* operand of `<` before the left, function literals have their own frame
LetNamesOfExprs(es) ==
  IF es = <<>> THEN <<>>
  ELSE IF Len(es) = 1
  THEN LET e == es[1]
       IN CASE e.t = "Func" -> <<>>
            [] e.t = "Infix" /\ e.operator = "Lt" -> LetNamesOfExprs(<<e.kids[2], e.kids[1]>>)
            [] OTHER -> LetNamesOfExprs(e.kids) \o LetNamesOfBlock(e.if_branch) \o LetNamesOfBlock(e.else_branch)
  ELSE LetNamesOfExprs(SubSeq(es, 1, Len(es) \div 2)) \o LetNamesOfExprs(SubSeq(es, Len(es) \div 2 + 1, Len(es)))

LetNamesOfBlock(block) ==
  IF block = <<>> THEN <<>>
  ELSE LetNamesOfExprs(<<Head(block).expr>>) \o (IF Head(block).t = "Let" THEN <<Head(block).ident>> ELSE <<>>) \o LetNamesOfBlock(Tail(block))

\* history: the global lets of a compiled program with the slots of their
\* SetGlobal instructions in the top-level stream
GlobalLets(prog, bytes) ==
  LET names == LetNamesOfBlock(prog)
      d == Decode(bytes, 0)
      sets == {k \in 1..Len(d) : d[k].op = "SetGlobal"}
      nth(j) == CHOOSE k \in sets : Cardinality({i \in sets : i <= k}) = j
  IN IF names = <<>> THEN <<>>
     ELSE [j \in 1..(IF Len(names) <= Cardinality(sets) THEN Len(names) ELSE Cardinality(sets)) |-> [name |-> names[j], slot |-> d[nth(j)].operand]]

(* --------------------------- the state machine ------------------------- *)

\* round counts the compilers constructed so far; origin says how the
\* current one was constructed: "default", "caller" (new_with_state on values
\* of the caller's own) or "state" (new_with_state on the state() of the
\* previous compiler); slots is the history of the global lets compiled by
\* the earlier and the current compiler: <<name, SetGlobal operand>>
VARIABLES program, compiler, bc, vm, pc, round, origin, slots

vars == <<program, compiler, bc, vm, pc, round, origin, slots>>

NoBytecode == [instructions |-> NoBytes, constants |-> <<>>]

Init ==
  /\ program \in Programs
  /\ compiler = CompilerDefault
  /\ bc = NoBytecode
  /\ vm = [Vm_new(NoBytecode) EXCEPT !.result = "none"]
  /\ pc = "new"
  /\ round = 1
  /\ origin = "default"
  /\ slots = <<>>

InitDeep ==
  /\ program \in DeepPrograms
  /\ compiler = CompilerDefault
  /\ bc = NoBytecode
  /\ vm = [Vm_new(NoBytecode) EXCEPT !.result = "none"]
  /\ pc = "new"
  /\ round = 1
  /\ origin = "default"
  /\ slots = <<>>

\* a session: the first compiler is Compiler::default() or
\* Compiler::new_with_state(table, constants) on a new table with the
\* built-ins and a constants vector of the caller
InitRepl ==
  /\ program \in ReplPrograms
  /\ \/ compiler = CompilerDefault /\ origin = "default"
     \/ \E cs \in CallerConstants : compiler = new_with_state(CompilerDefault.symbol_table, cs) /\ origin = "caller"
  /\ bc = NoBytecode
  /\ vm = [Vm_new(NoBytecode) EXCEPT !.result = "none"]
  /\ pc = "new"
  /\ round = 1
  /\ slots = <<>>

\* compiler.compile(program)
Compile ==
  /\ pc = "new"
  /\ compiler' = compile(compiler, program)
  /\ pc' = "compiled"
  /\ slots' = IF Failed(compiler') THEN slots ELSE slots \o GlobalLets(program, compiler'.scopes[1].instructions)
  /\ UNCHANGED <<program, bc, vm, round, origin>>

\* let (table, constants) = compiler.state(); then, for the next program,
\* Compiler::new_with_state(table, constants)
NewWithState ==
  /\ pc = "compiled"
  /\ ~Failed(compiler)
  /\ round < MaxCompilers
  /\ program' \in ReplPrograms
  /\ compiler' = new_with_state(state(compiler).symbol_table, state(compiler).constants)
  /\ pc' = "new"
  /\ round' = round + 1
  /\ origin' = "state"
  /\ UNCHANGED <<bc, vm, slots>>

\* compiler.bytecode(), after a compile that returned Ok
Bytecode ==
  /\ pc = "compiled"
  /\ ~Failed(compiler)
  /\ bc' = bytecode(compiler)
  /\ pc' = "bytecode"
  /\ UNCHANGED <<program, compiler, vm, round, origin, slots>>

\* Vm::new(bytecode), and the entry of run(): ip = 0
VmNew ==
  /\ pc = "bytecode"
  /\ vm' = Vm_new(bc)
  /\ pc' = "run"
  /\ UNCHANGED <<program, compiler, bc, round, origin, slots>>

Running == pc = "run" /\ vm.result = "running"

\* one iteration of the loop of run() reads the opcode at ip
Fetch(name) == Running /\ vm.ip < Len(vm.instructions) /\ NextOp(vm) = name

\* the loop condition fails: run() returns Ok(())
RunReturn ==
  /\ Running
  /\ vm.ip >= Len(vm.instructions)
  /\ vm' = run_return(vm)
  /\ UNCHANGED <<program, compiler, bc, pc, round, origin, slots>>

RunConstant ==
  /\ Fetch("Constant")
  /\ vm' = run_constant(vm)
  /\ UNCHANGED <<program, compiler, bc, pc, round, origin, slots>>

RunBinOp ==
  /\ \E name \in BinOps : Fetch(name)
  /\ vm' = run_bin_op(vm)
  /\ UNCHANGED <<program, compiler, bc, pc, round, origin, slots>>

RunPop ==
  /\ Fetch("Pop")
  /\ vm' = run_pop(vm)
  /\ UNCHANGED <<program, compiler, bc, pc, round, origin, slots>>

RunTrue ==
  /\ Fetch("True")
  /\ vm' = run_push_bool(vm, TRUE)
  /\ UNCHANGED <<program, compiler, bc, pc, round, origin, slots>>

RunFalse ==
  /\ Fetch("False")
  /\ vm' = run_push_bool(vm, FALSE)
  /\ UNCHANGED <<program, compiler, bc, pc, round, origin, slots>>

\* every other opcode: `_ => todo!()` panics
RunTodo ==
  /\ Running
  /\ vm.ip < Len(vm.instructions)
  /\ NextOp(vm) \notin BinOps \cup {"Constant", "Pop", "True", "False"}
  /\ vm' = run_todo(vm)
  /\ UNCHANGED <<program, compiler, bc, pc, round, origin, slots>>

\* run() on the new Vm taken as one step: the loop to its return or panic
RunLoop ==
  /\ Running
  /\ vm.ip = 0 /\ vm.sp = 0
  /\ vm' = run_iterations(vm, Len(vm.instructions) + 1)
  /\ UNCHANGED <<program, compiler, bc, pc, round, origin, slots>>

Next == Compile \/ Bytecode \/ VmNew \/ RunReturn \/ RunConstant \/ RunBinOp \/ RunPop \/ RunTrue \/ RunFalse \/ RunTodo

Spec == Init /\ [][Next]_vars

NextDeep == Next \/ RunLoop

SpecDeep == InitDeep /\ [][NextDeep]_vars

NextRepl == Next \/ NewWithState

SpecRepl == InitRepl /\ [][NextRepl]_vars

(* ------------------------------ the claims ----------------------------- *)

\* run() has returned or panicked
Ended == pc = "run" /\ vm.result # "running"

\* the program is the single expression statement `l op r`
IsInfixProgram == Len(program) = 1 /\ program[1].t = "Expression" /\ program[1].expr.t = "Infix"

\* the meaning of an operator on two integers
IntegerResult(a, op, b) ==
  CASE op = "Plus" -> Integer(a + b)
    [] op = "Minus" -> Integer(a - b)
    [] op = "Star" -> Integer(a * b)
    [] op = "Gt" -> Bool(a > b)
    [] op = "Lt" -> Bool(a < b)
    [] op = "Eq" -> Bool(a = b)
    [] op = "NotEq" -> Bool(a # b)

\* C6: for integers a, b of the range and op in {+, -, *, >, <, ==, !=}, the
\* run of the compiled program `a op b` returns Ok and last_popped() is op
\* applied to a as the left and b as the right operand.
C6_IntegerInfixResult ==
  \A a \in Ints, b \in Ints, op \in {"Plus", "Minus", "Star", "Gt", "Lt", "Eq", "NotEq"} :
    (program = <<Expression(Infix(Number(a), op, Number(b)))>> /\ Ended)
      => (vm.result = "Ok" /\ last_popped(vm) = IntegerResult(a, op, b))

\* C6 witness: `0 < 1` ran to Ok with Bool(true), and its operands are reversed in the pool
C6_Witness ==
  /\ program = <<Expression(Infix(Number(0), "Lt", Number(1)))>>
  /\ Ended /\ vm.result = "Ok"
  /\ last_popped(vm) = Bool(TRUE)
  /\ vm.constants = <<Null, Integer(1), Integer(0)>>

\* the opcode an operator is lowered to
MappedOpcode(op) ==
  CASE op = "Plus" -> "Add"
    [] op = "Minus" -> "Sub"
    [] op = "Star" -> "Mul"
    [] op = "Slash" -> "Div"
    [] op = "Gt" -> "Greater"
    [] op = "Lt" -> "Greater"
    [] op = "Eq" -> "Eq"
    [] op = "NotEq" -> "NotEq"

\* the code and the constant of a literal compiled when the pool holds idx constants
LiteralCode(a, idx) == IF a.t = "Bool" THEN <<IF a.n = 1 THEN Op("True") ELSE Op("False")>> ELSE <<Op("Constant"), idx \div 256, idx % 256>>

LiteralConstants(a) == IF a.t = "Bool" THEN <<>> ELSE IF a.t = "Number" THEN <<Integer(a.n)>> ELSE <<String(a.s)>>

\* C7: the expression statement `l op r` compiles to code(l), code(r), the
\* mapped opcode, Pop, and to code(r), code(l), Greater, Pop for `<`; the
\* constants of literals are appended in the order they are compiled and a
\* boolean literal adds none; when an operand does not compile, its error is
\* the result.
C7_InfixLayout ==
  (pc # "new" /\ IsInfixProgram) =>
    LET e == program[1].expr
        first == IF e.operator = "Lt" THEN e.kids[2] ELSE e.kids[1]
        second == IF e.operator = "Lt" THEN e.kids[1] ELSE e.kids[2]
        c1 == compile_expr(CompilerDefault, first)
        c2 == IF Failed(c1) THEN c1 ELSE compile_expr(c1, second)
        tail == <<Op(MappedOpcode(e.operator)), Op("Pop")>>
    IN IF Failed(c2) THEN compiler.err = c2.err
       ELSE /\ ~Failed(compiler)
            /\ instructions(compiler) = instructions(c2) \o tail
            /\ compiler.constants = c2.constants
            /\ (first \in Atoms /\ second \in Atoms) =>
                 /\ compiler.constants = <<Null>> \o LiteralConstants(first) \o LiteralConstants(second)
                 /\ instructions(compiler) = LiteralCode(first, 1) \o LiteralCode(second, 1 + Len(LiteralConstants(first))) \o tail

\* C7 witness: `1 < 2` compiled to Constant 1, Constant 2, Greater, Pop with constants [2, 1]
C7_Witness ==
  /\ program = <<Expression(Infix(Number(1), "Lt", Number(2)))>>
  /\ pc = "compiled"
  /\ compiler.constants = <<Null, Integer(2), Integer(1)>>
  /\ instructions(compiler) = <<Op("Constant"), 0, 1, Op("Constant"), 0, 2, Op("Greater"), Op("Pop")>>

\* the loop of run() is about to execute a binary opcode on two operands that are not both Integer
BinOpOnOthers ==
  /\ Running /\ vm.ip < Len(vm.instructions) /\ NextOp(vm) \in BinOps
  /\ vm.sp >= 2
  /\ ~(StackAt(vm, vm.sp - 1).kind = "Integer" /\ StackAt(vm, vm.sp - 2).kind = "Integer")

\* C10: a binary opcode on operands that are not both Integer pushes the Bool
\* of their (in)equality when they are of one kind and the opcode is Eq or
\* NotEq; otherwise run() returns Err `unknown operation: <left> <op> <right>`
\* and no further instruction is executed.
C10_BinOpOnOthers ==
  [][ /\ BinOpOnOthers =>
          LET right == StackAt(vm, vm.sp - 1)
              left == StackAt(vm, vm.sp - 2)
          IN IF left.kind = right.kind /\ NextOp(vm) \in {"Eq", "NotEq"}
             THEN /\ vm'.result = "running"
                  /\ vm'.sp = vm.sp - 1
                  /\ vm'.ip = vm.ip + 1
                  /\ StackAt(vm', vm'.sp - 1) = Bool(IF NextOp(vm) = "Eq" THEN left = right ELSE left # right)
             ELSE /\ vm'.result = "Err"
                  /\ vm'.msg = UnknownOperation(left, vm.instructions[vm.ip + 1], right)
      /\ vm.result = "Err" => vm' = vm ]_vars

\* C10 witness: `true + 1` ended in Err("unknown operation: true + 1")
C10_Witness ==
  /\ Ended /\ vm.result = "Err"
  /\ vm.msg = UnknownOperation(Bool(TRUE), Op("Add"), Integer(1))

\* C1: whenever the evaluator evaluates the expression e of the program `e`
\* successfully to v, the program compiles, run() returns Ok and
\* last_popped() equals v.
C1_EvaluatorAgreement ==
  LET r == eval_program(program, <<>>)
  IN (pc # "new" /\ Len(program) = 1 /\ program[1].t = "Expression" /\ r.status = "Ok") =>
       /\ ~Failed(compiler)
       /\ Ended => (vm.result = "Ok" /\ last_popped(vm) = r.val)

\* the stack effect (pushes minus pops) of an opcode, from the opcode table
StackEffect(name, operand) ==
  CASE name \in {"Constant", "True", "False", "GetGlobal", "GetLocal", "GetBuiltin"} -> 1
    [] name \in {"Pop", "Add", "Sub", "Mul", "Div", "Greater", "Eq", "NotEq", "Index", "SetGlobal", "SetLocal", "JumpNotTrue"} -> 0 - 1
    [] name \in {"Minus", "Bang", "Jump"} -> 0
    [] name = "Array" -> 1 - operand
    [] name = "Hash" -> 1 - 2 * operand
    [] name = "Call" -> 0 - operand

\* the stack heights, relative to h at offset pos, with which execution by
\* the stack effects can arrive at offset end; a path that returns from the
\* function arrives nowhere, a path that runs past end arrives with -1000
RECURSIVE Heights(_, _, _, _)
Heights(bytes, pos, h, end) ==
  IF pos = end THEN {h}
  ELSE IF pos > end \/ pos >= Len(bytes) THEN {0 - 1000}
  ELSE LET name == OpName(bytes[pos + 1])
           operand == IF OperandWidth(bytes[pos + 1]) = 2 THEN ReadU16(bytes, pos + 1) ELSE 0
           next == pos + 1 + OperandWidth(bytes[pos + 1])
       IN CASE name = "Jump" -> Heights(bytes, operand, h, end)
            [] name = "JumpNotTrue" -> Heights(bytes, next, h - 1, end) \cup Heights(bytes, operand, h - 1, end)
            [] name \in {"ReturnValue", "Return"} -> {}
            [] OTHER -> Heights(bytes, next, h + StackEffect(name, operand), end)

\* the finished stream an if-expression of the history was compiled into
StreamOf(k) == IF k = 0 THEN compiler.scopes[1].instructions ELSE compiler.constants[k + 1].instructions

\* the if-expressions whose stream is finished or is the top-level stream
ClosedIfs == {k \in 1..Len(compiler.ifs) : compiler.ifs[k].stream >= 0}

\* C2: the code of every compiled if-expression, executed by the opcode
\* stack effects along either branch, leaves the stack exactly one slot
\* higher than before its condition.
C2_IfLeavesOneValue ==
  \A k \in ClosedIfs :
    LET i == compiler.ifs[k]
    IN Heights(StreamOf(i.stream), i.start, 0, i.end) \subseteq {1}

LastOp(bytes) == LET d == Decode(bytes, 0) IN IF d = <<>> THEN "" ELSE d[Len(d)].op

\* C3: the instruction stream of every CompiledFunc constant ends with
\* ReturnValue or Return.
C3_FunctionEndsInReturn ==
  (pc # "new") =>
    \A k \in 1..Len(compiler.constants) :
      compiler.constants[k].kind = "CompiledFunc" => LastOp(compiler.constants[k].instructions) \in {"ReturnValue", "Return"}

\* C3 witness: fn() { if (true) { return 1 } else { return 0 } } is stored
\* with a stream whose last instruction is ReturnValue (the replaced Pop)
C3_Witness ==
  /\ program = <<Expression(Func(<<>>, <<Expression(IfElse(BoolLit(TRUE), <<Return(Number(1))>>, <<Return(Number(0))>>))>>))>>
  /\ pc = "compiled"
  /\ compiler.constants[4].kind = "CompiledFunc"
  /\ LastOp(compiler.constants[4].instructions) = "ReturnValue"
  /\ Len(Decode(compiler.constants[4].instructions, 0)) = 8

\* the Jump and JumpNotTrue instructions of a stream
Jumps(bytes) == LET d == Decode(bytes, 0) IN {d[k] : k \in {j \in 1..Len(d) : d[j].op \in {"Jump", "JumpNotTrue"}}}

\* the top-level stream and the streams of the function constants
FinishedStreams == {compiler.scopes[1].instructions} \cup {compiler.constants[k].instructions : k \in {j \in 1..Len(compiler.constants) : compiler.constants[j].kind = "CompiledFunc"}}

\* C4: after compilation the JumpNotTrue of an if-expression targets the
\* offset right after its Jump, its Jump targets the offset right after the
\* else block or the Null sentinel, no placeholder operand is left, and both
\* targets are at most the length of the finished stream.
C4_JumpTargets ==
  (pc # "new") =>
    /\ \A k \in ClosedIfs :
         LET i == compiler.ifs[k]
             bytes == StreamOf(i.stream)
         IN /\ OpName(bytes[i.jmp_if + 1]) = "JumpNotTrue"
            /\ OpName(bytes[i.jmp_else + 1]) = "Jump"
            /\ ReadU16(bytes, i.jmp_if + 1) = i.jmp_else + 3
            /\ ReadU16(bytes, i.jmp_else + 1) = i.end
            /\ ~i.has_else => i.end = i.jmp_else + 6
            /\ i.jmp_else + 3 <= i.end
            /\ i.end <= Len(bytes)
    /\ \A bytes \in FinishedStreams : \A j \in Jumps(bytes) : j.operand # 9999 /\ j.operand <= Len(bytes)

\* C4 witness: in fn() { if (true) { 10 } } the Jump targets offset 13, where
\* the statement's Pop was replaced by ReturnValue, the last instruction
C4_Witness ==
  /\ program = <<Expression(Func(<<>>, <<Expression(If(BoolLit(TRUE), <<Expression(Number(10))>>))>>))>>
  /\ pc = "compiled"
  /\ \E k \in ClosedIfs :
       /\ compiler.ifs[k].stream = 2
       /\ compiler.ifs[k].end = 13
       /\ ReadU16(StreamOf(2), compiler.ifs[k].jmp_else + 1) = 13
       /\ Len(StreamOf(2)) = 14
       /\ LastOp(StreamOf(2)) = "ReturnValue"

\* C5 as stated: when run() returns, sp is exactly 1 less than the highest
\* value sp reached.
C5_SpOneBelowPeak == (Ended /\ vm.result \in {"Ok", "Err"}) => vm.sp = vm.peak - 1

PopCount(bytes) == LET d == Decode(bytes, 0) IN Cardinality({k \in 1..Len(d) : d[k].op = "Pop"})

\* C5 amended: when run() returns Ok, sp is 0, one Pop was executed for each
\* top-level statement, and sp is at least 1 less than the highest value sp
\* reached unless the program is empty.
C5_SpBackToZero ==
  (Ended /\ vm.result = "Ok") =>
    /\ vm.sp = 0
    /\ PopCount(vm.instructions) = Len(program)
    /\ program # <<>> => vm.sp <= vm.peak - 1

\* C5 witness: `1 - 0` returned Ok with sp = 0 after sp had reached 2
C5_Witness ==
  /\ program = <<Expression(Infix(Number(1), "Minus", Number(0)))>>
  /\ Ended /\ vm.result = "Ok"
  /\ vm.sp = 0 /\ vm.peak = 2

\* C8: the run of `if (c) { 10 }; 3333;` and of `if (c) { 10 } else { 0 }; 3333;`
\* returns Ok with last_popped() = Integer(3333), for a truthy and for a
\* non-truthy condition c.
C8_IfRunsToOk ==
  \A c \in Conditions :
    \A e \in {If(c, <<Expression(Number(10))>>), IfElse(c, <<Expression(Number(10))>>, <<Expression(Number(0))>>)} :
      (program = <<Expression(e), Expression(Number(3333))>> /\ Ended)
        => (vm.result = "Ok" /\ last_popped(vm) = Integer(3333))

\* C9: Add on two String operands pushes the left operand followed by the
\* right operand and run() continues.
C9_AddConcatenatesStrings ==
  [][ ( /\ Running /\ vm.ip < Len(vm.instructions) /\ NextOp(vm) = "Add"
        /\ vm.sp >= 2
        /\ StackAt(vm, vm.sp - 1).kind = "String" /\ StackAt(vm, vm.sp - 2).kind = "String" )
      => /\ vm'.result = "running"
         /\ vm'.sp = vm.sp - 1
         /\ StackAt(vm', vm'.sp - 1) = String(StackAt(vm, vm.sp - 2).s \o StackAt(vm, vm.sp - 1).s) ]_vars

\* C11: a run of compiled bytecode never aborts the process: it is running,
\* or it has returned Ok or Err.
C11_NoAbort == (pc = "run") => vm.result \in {"running", "Ok", "Err"}

\* the top-level instruction stream
TopStream == compiler.scopes[1].instructions

\* the bytes of one instruction with one operand, and with none
Ins1(name, operand) == Instruction(Op(name), <<operand>>).bytes

Ins0(name) == Instruction(Op(name), <<>>).bytes

\* code(e): the bytes a fresh compiler emits for the expression e
CodeOf(e) == instructions(compile_expr(CompilerDefault, e))

\* the number of SetGlobal instructions of a stream
SetGlobalCount(bytes) == LET d == Decode(bytes, 0) IN Cardinality({k \in 1..Len(d) : d[k].op = "SetGlobal"})

\* C16: `let n = e; n` at top level compiles to code(e), SetGlobal s,
\* GetGlobal s, Pop (s = 0 unless e itself defines globals; `let x = 5; x` is
\* Constant 1, SetGlobal 0, GetGlobal 0, Pop); in a function body with
\* parameters ps, `let x = 1; x` compiles to Constant, SetLocal s, GetLocal s,
\* ReturnValue with s = Len(ps); a let alone emits no Pop.
C16_LetLayout ==
  (pc # "new" /\ ~Failed(compiler)) =>
    /\ (Len(program) = 2 /\ program[1].t = "Let" /\ program[2] = Expression(Ident(program[1].ident))) =>
         LET code == CodeOf(program[1].expr)
             s == SetGlobalCount(code)
         IN TopStream = code \o Ins1("SetGlobal", s) \o Ins1("GetGlobal", s) \o Ins0("Pop")
    /\ (program = <<Let("x", Number(5)), Expression(Ident("x"))>>) =>
         TopStream = Ins1("Constant", 1) \o Ins1("SetGlobal", 0) \o Ins1("GetGlobal", 0) \o Ins0("Pop")
    /\ (program = <<Let("x", Number(1))>>) =>
         TopStream = Ins1("Constant", 1) \o Ins1("SetGlobal", 0)
    /\ \A ps \in Params :
         /\ (program = <<Expression(Func(ps, <<Let("x", Number(1)), Expression(Ident("x"))>>))>>) =>
              compiler.constants[3].instructions = Ins1("Constant", 1) \o Ins1("SetLocal", Len(ps)) \o Ins1("GetLocal", Len(ps)) \o Ins0("ReturnValue")
         /\ (program = <<Expression(Func(ps, <<Let("x", Number(1)), Return(Ident("x"))>>))>>) =>
              compiler.constants[3].instructions = Ins1("Constant", 1) \o Ins1("SetLocal", Len(ps)) \o Ins1("GetLocal", Len(ps)) \o Ins0("ReturnValue")
         /\ (program = <<Expression(Func(ps, <<Let("x", Number(1))>>))>>) =>
              compiler.constants[3].instructions = Ins1("Constant", 1) \o Ins1("SetLocal", Len(ps)) \o Ins0("Return")

\* C16 witness: fn(a, b) { let x = 1; x } was compiled with SetLocal 2, GetLocal 2
C16_Witness ==
  /\ program = <<Expression(Func(<<"a", "b">>, <<Let("x", Number(1)), Expression(Ident("x"))>>))>>
  /\ pc = "compiled" /\ ~Failed(compiler)
  /\ compiler.constants[3].kind = "CompiledFunc"
  /\ compiler.constants[3].instructions = Ins1("Constant", 1) \o Ins1("SetLocal", 2) \o Ins1("GetLocal", 2) \o Ins0("ReturnValue")
  /\ TopStream = Ins1("Constant", 2) \o Ins0("Pop")

\* the names visible at a point of the program: the built-ins and the names
\* of every open frame, outermost first; err is the first name found
\* undefined ("" while there is none)
ScanStart == [frames |-> <<{}>>, err |-> ""]

Visible(s) == {Builtins[k] : k \in 1..Len(Builtins)} \cup UNION {s.frames[k] : k \in 1..Len(s.frames)}

RECURSIVE ScanExpr(_, _)
RECURSIVE ScanExprs(_, _)
RECURSIVE ScanBlock(_, _)

\* the identifiers of an expression in the order the compiler visits them
ScanExpr(s, e) ==
  IF s.err # "" THEN s
  ELSE CASE e.t = "Ident" -> IF e.name \in Visible(s) THEN s ELSE [s EXCEPT !.err = e.name]
         [] e.t = "Infix" /\ e.operator = "Lt" -> ScanExpr(ScanExpr(s, e.kids[2]), e.kids[1])
         [] e.t = "If" -> ScanBlock(ScanBlock(ScanExpr(s, e.kids[1]), e.if_branch), e.else_branch)
         [] e.t = "Func" ->
              LET inner == ScanBlock([s EXCEPT !.frames = Append(@, {e.params[k] : k \in 1..Len(e.params)})], e.body)
              IN IF inner.err # "" THEN inner ELSE s
         [] OTHER -> ScanExprs(s, e.kids)

ScanExprs(s, es) == IF es = <<>> THEN s ELSE ScanExprs(ScanExpr(s, Head(es)), Tail(es))

ScanBlock(s, block) ==
  IF block = <<>> \/ s.err # "" THEN s
  ELSE LET s1 == ScanExpr(s, Head(block).expr)
           s2 == IF Head(block).t = "Let" /\ s1.err = "" THEN [s1 EXCEPT !.frames[Len(s1.frames)] = @ \cup {Head(block).ident}] ELSE s1
       IN ScanBlock(s2, Tail(block))

\* the first undefined identifier of the program, "" if there is none
FirstUndefined(prog) == ScanBlock(ScanStart, prog).err

\* the statement of the program that holds its first undefined identifier
FailingStatement(prog) == CHOOSE k \in 1..Len(prog) : FirstUndefined(SubSeq(prog, 1, k)) # "" /\ (k > 1 => FirstUndefined(SubSeq(prog, 1, k - 1)) = "")

\* C17: compile() fails exactly when the program has an identifier that is
\* neither a built-in nor defined earlier in a visible frame; the error is
\* "undefined symbol" with the first such name in compile order, and the
\* compiler is left as by the program cut after the failing statement: no
\* later statement is compiled.  `let f = fn() { f() }` fails on f.
C17_UndefinedSymbol ==
  (pc # "new") =>
    /\ Failed(compiler) <=> FirstUndefined(program) # ""
    /\ Failed(compiler) =>
         /\ compiler.err = <<"undefined symbol", FirstUndefined(program)>>
         /\ compiler = compile(CompilerDefault, SubSeq(program, 1, FailingStatement(program)))
         /\ (program[Len(program)] = Expression(Number(3333)) /\ FailingStatement(program) < Len(program))
              => \A k \in 1..Len(compiler.constants) : compiler.constants[k] # Integer(3333)
    /\ (program = <<Let("f", Func(<<>>, <<Expression(Call(Ident("f"), <<>>))>>))>>) => compiler.err = <<"undefined symbol", "f">>
    /\ (program = <<Expression(Infix(Ident("p"), "Lt", Ident("q")))>>) => compiler.err = <<"undefined symbol", "q">>
    /\ (program = <<Expression(Infix(Ident("p"), "Plus", Ident("q")))>>) => compiler.err = <<"undefined symbol", "p">>

\* C17 witness: `let x = 1; zz; 3333` failed on zz after SetGlobal 0 and
\* before the constant 3333
C17_Witness ==
  /\ program = <<Let("x", Number(1)), Expression(Ident("zz")), Expression(Number(3333))>>
  /\ pc = "compiled"
  /\ compiler.err = <<"undefined symbol", "zz">>
  /\ TopStream = Ins1("Constant", 1) \o Ins1("SetGlobal", 0)
  /\ compiler.constants = <<Null, Integer(1)>>

RECURSIVE LetsOfBlock(_)
RECURSIVE LetsOfExprs(_)

\* the number of let statements of a block that define a name in the frame
\* of the block: its own and those of the blocks of its if-expressions, not
\* those of function literals
LetsOfExprs(es) ==
  IF es = <<>> THEN 0
  ELSE LET e == Head(es)
       IN (IF e.t = "Func" THEN 0 ELSE LetsOfExprs(e.kids) + LetsOfBlock(e.if_branch) + LetsOfBlock(e.else_branch)) + LetsOfExprs(Tail(es))

LetsOfBlock(block) ==
  IF block = <<>> THEN 0
  ELSE (IF Head(block).t = "Let" THEN 1 ELSE 0) + LetsOfExprs(<<Head(block).expr>>) + LetsOfBlock(Tail(block))

\* C18: the statement `fn(ps) { body }` adds to the enclosing stream the one
\* instruction Constant idx (and the statement's Pop) after the bytes already
\* there; constants[idx] is a CompiledFunc with params = Len(ps) and
\* locals = Len(ps) + the lets of the body's frame; the parameters are
\* GetLocal 0..n-1 in declaration order.
C18_FunctionLiteral ==
  (pc # "new" /\ ~Failed(compiler)) =>
    LET idx == Len(compiler.constants) - 1
        fn == compiler.constants[idx + 1]
        f == program[Len(program)].expr
    IN /\ (\E g \in FuncExprs : program = <<Expression(g)>>) =>
            /\ TopStream = Ins1("Constant", idx) \o Ins0("Pop")
            /\ fn.kind = "CompiledFunc" /\ fn.params = Len(f.params)
            /\ fn.locals = Len(f.params) + LetsOfBlock(f.body)
       /\ (\E g \in FuncExprs : program = <<Expression(Number(1)), Expression(g)>>) =>
            /\ TopStream = Ins1("Constant", 1) \o Ins0("Pop") \o Ins1("Constant", idx) \o Ins0("Pop")
            /\ fn.kind = "CompiledFunc" /\ fn.params = Len(f.params)
            /\ fn.locals = Len(f.params) + LetsOfBlock(f.body)
       /\ (program = <<Expression(Func(<<"a", "b">>, <<Expression(Infix(Ident("a"), "Plus", Ident("b")))>>))>>) =>
            fn.instructions = Ins1("GetLocal", 0) \o Ins1("GetLocal", 1) \o Ins0("Add") \o Ins0("ReturnValue")
       /\ (program = <<Expression(Func(<<"a", "b">>, <<Expression(Infix(Ident("a"), "Lt", Ident("b")))>>))>>) =>
            fn.instructions = Ins1("GetLocal", 1) \o Ins1("GetLocal", 0) \o Ins0("Greater") \o Ins0("ReturnValue")
       /\ \A ps \in Params \ {<<>>} : (program = <<Expression(Func(ps, <<Expression(Ident("a"))>>))>>) =>
            fn.instructions = Ins1("GetLocal", 0) \o Ins0("ReturnValue")

\* C18 witness: `1; fn(a, b) { let x = 1; x }` was compiled: the function is
\* constant 3 with 2 parameters and 3 locals, the top-level stream holds four
\* instructions
C18_Witness ==
  /\ program = <<Expression(Number(1)), Expression(Func(<<"a", "b">>, <<Let("x", Number(1)), Expression(Ident("x"))>>))>>
  /\ pc = "compiled" /\ ~Failed(compiler)
  /\ TopStream = Ins1("Constant", 1) \o Ins0("Pop") \o Ins1("Constant", 3) \o Ins0("Pop")
  /\ compiler.constants[4].kind = "CompiledFunc"
  /\ compiler.constants[4].params = 2 /\ compiler.constants[4].locals = 3

\* C19: after compile() has returned, Ok or Err, the scope stack holds one
\* scope and the symbol table is the global frame, so bytecode() reads the
\* top-level stream and state() hands out the global symbol table.
C19_BackInOutermostScope ==
  (pc # "new") =>
    /\ Len(compiler.scopes) = 1
    /\ Len(compiler.symbol_table) = 1
    /\ bytecode(compiler).instructions = TopStream
    /\ state(compiler).symbol_table = <<compiler.symbol_table[1]>>

\* C20: whenever last_is or remove_last was evaluated during the
\* compilation, `last` named the final instruction of the current scope's
\* stream, and every remove_last removed exactly one trailing Pop.
C20_LastIsAccurate ==
  (pc # "new") => (compiler.audit.stale = 0 /\ compiler.audit.not_pop = 0)

\* C20 witness: fn() { if (true) { if (true) { 10 } } } was compiled with
\* three removals of a Pop (inner block, outer block, function body)
C20_Witness ==
  /\ program = <<Expression(Func(<<>>, <<Expression(If(BoolLit(TRUE), <<Expression(If(BoolLit(TRUE), <<Expression(Number(10))>>))>>))>>))>>
  /\ pc = "compiled" /\ ~Failed(compiler)
  /\ compiler.audit.removed = 3
  /\ compiler.audit.evaluated = 4
  /\ LastOp(compiler.constants[3].instructions) = "ReturnValue"

\* the operands of the Constant instructions of a stream
ConstantOperands(bytes) == LET d == Decode(bytes, 0) IN {d[k].operand : k \in {j \in 1..Len(d) : d[j].op = "Constant"}}

\* C13: in the Bytecode returned by bytecode() and in the stream of every
\* CompiledFunc constant, each Constant operand is an index < len(constants),
\* for a default compiler and for one built by new_with_state.
C13_ConstantOperandsInPool ==
  (pc \in {"bytecode", "run"}) =>
    /\ \A i \in ConstantOperands(bc.instructions) : i < Len(bc.constants)
    /\ \A k \in 1..Len(bc.constants) :
         bc.constants[k].kind = "CompiledFunc" => \A i \in ConstantOperands(bc.constants[k].instructions) : i < Len(bc.constants)

\* C14: constants[0] is Null in every Bytecode a compiler emits, for a
\* default compiler and for one built by new_with_state.
C14_SlotZeroIsNull ==
  (pc \in {"bytecode", "run"}) => (Len(bc.constants) >= 1 /\ bc.constants[1] = Null)

\* the slot of the latest let of a name in the history, -1 if there is none
LatestSlot(h, n) ==
  LET hits == {k \in 1..Len(h) : h[k].name = n}
  IN IF hits = {} THEN 0 - 1 ELSE h[CHOOSE k \in hits : \A j \in hits : j <= k].slot

UsedSlots(h) == {h[k].slot : k \in 1..Len(h)}

\* C15: in a session, each compile() by a compiler built by new_with_state
\* from the state() of the previous one starts from an empty stream, keeps
\* the constants already in the pool and numbers new constants after them,
\* resolves a global of an earlier program to GetGlobal with the slot of its
\* (latest) let, also inside a function body, and gives a new let a slot no
\* earlier global has.
C15_SessionState ==
  [][ (Compile /\ origin = "state" /\ ~Failed(compiler'))
      => LET old == Len(compiler.constants)
             top == compiler'.scopes[1].instructions
         IN /\ compiler.scopes = <<ScopeDefault>>
            /\ SubSeq(compiler'.constants, 1, old) = compiler.constants
            /\ (program = <<Expression(Infix(Number(1), "Plus", Number(1)))>>) =>
                 top = Ins1("Constant", old) \o Ins1("Constant", old + 1) \o Ins0("Add") \o Ins0("Pop")
            /\ \A n \in {"x", "y"} :
                 (program = <<Expression(Ident(n))>>) =>
                   (LatestSlot(slots, n) >= 0 /\ top = Ins1("GetGlobal", LatestSlot(slots, n)) \o Ins0("Pop"))
            /\ (program = <<Expression(Func(<<"a">>, <<Expression(Ident("x"))>>))>>) =>
                 /\ LatestSlot(slots, "x") >= 0
                 /\ compiler'.constants[old + 1].instructions = Ins1("GetGlobal", LatestSlot(slots, "x")) \o Ins0("ReturnValue")
                 /\ top = Ins1("Constant", old) \o Ins0("Pop")
            /\ (program = <<Let("y", Ident("x"))>>) =>
                 \E s \in 0..Len(slots) : /\ s \notin UsedSlots(slots)
                                          /\ top = Ins1("GetGlobal", LatestSlot(slots, "x")) \o Ins1("SetGlobal", s)
            /\ (program = <<Let("x", Number(1))>>) =>
                 \E s \in 0..Len(slots) : /\ s \notin UsedSlots(slots)
                                          /\ top = Ins1("Constant", old) \o Ins1("SetGlobal", s)
    ]_vars

\* C15 witness: `let x = 1`, then `let y = x`, then `y` by the third
\* compiler: GetGlobal 1, Pop, with the constant of the first program still
\* in the pool
C15_Witness ==
  /\ round = 3 /\ origin = "state" /\ pc = "compiled" /\ ~Failed(compiler)
  /\ program = <<Expression(Ident("y"))>>
  /\ slots = <<[name |-> "x", slot |-> 0], [name |-> "y", slot |-> 1]>>
  /\ TopStream = Ins1("GetGlobal", 1) \o Ins0("Pop")
  /\ compiler.constants = <<Null, Integer(1)>>

\* C12: while compiled bytecode runs, 0 <= sp <= STACK_SIZE; a push
\* attempted at sp = STACK_SIZE makes run() return Err("Stack overflow") with
\* sp and the stack slots unchanged; after an Err nothing is executed.
C12_StackBound ==
  [][ /\ (pc' = "run") => (0 <= vm'.sp /\ vm'.sp <= STACK_SIZE /\ Len(vm'.stack) <= STACK_SIZE)
      /\ (Running /\ vm.sp = STACK_SIZE /\ vm.ip < Len(vm.instructions) /\ NextOp(vm) \in {"Constant", "True", "False"})
           => /\ vm'.result = "Err" /\ vm'.msg = StackOverflowMsg
              /\ vm'.sp = vm.sp /\ vm'.stack = vm.stack /\ vm'.ip = vm.ip
      /\ (pc = "run" /\ vm.result = "Err") => vm' = vm
    ]_vars

\* C12 witness: the array literal of STACK_SIZE + 1 elements ran into
\* Err("Stack overflow") at its last True, with sp = STACK_SIZE
C12_Witness ==
  /\ program = <<Expression(ArrayLit(Trues(STACK_SIZE + 1)))>>
  /\ pc = "run" /\ vm.result = "Err" /\ vm.msg = StackOverflowMsg
  /\ vm.sp = STACK_SIZE /\ vm.peak = STACK_SIZE
  /\ vm.ip = STACK_SIZE
  /\ NextOp(vm) = "True"
  /\ StackAt(vm, STACK_SIZE - 1) = Bool(TRUE)

\* the opcodes of an instruction stream
OpsOf(bytes) == LET d == Decode(bytes, 0) IN {d[k].op : k \in 1..Len(d)}

\* the bytecode of a program without calls
CallFree(bytes) == "Call" \notin OpsOf(bytes)

\* C21: run() on the bytecode of a program without calls that holds an
\* if-expression stops because ip has reached the length of the stream, where
\* the loop ends (or because an instruction has returned Err): each executed
\* instruction, a Jump and a JumpNotTrue included, moves ip forward and the
\* run goes on.
C21_IpReachesEnd ==
  (Ended /\ CallFree(vm.instructions) /\ "JumpNotTrue" \in OpsOf(vm.instructions)) =>
    \/ vm.result = "Ok" /\ vm.ip = Len(vm.instructions)
    \/ vm.result = "Err"

\* the parts of C21 that are about the emitted bytes: every Jump and
\* JumpNotTrue targets an offset greater than its own, at most the length
\* of its stream, and every instruction has its operand inside the stream
C21_EmittedBytes ==
  (pc # "new" /\ ~Failed(compiler)) =>
    \A bytes \in FinishedStreams :
      LET d == Decode(bytes, 0)
      IN \A k \in 1..Len(d) :
           /\ d[k].pos + 1 + OperandWidth(bytes[d[k].pos + 1]) <= Len(bytes)
           /\ d[k].op \in {"Jump", "JumpNotTrue"} => (d[k].pos < d[k].operand /\ d[k].operand <= Len(bytes))

\* the parts of C21 that are about the loop: an iteration after which run()
\* is still running has moved ip past the opcode and its operands, and a
\* running Vm has ip at most the length of the stream
C21_IpAdvances ==
  [][ (Running /\ vm'.result = "running" /\ pc' = "run")
        => /\ vm.ip < Len(vm.instructions)
           /\ vm'.ip = vm.ip + 1 + OperandWidth(vm.instructions[vm.ip + 1])
           /\ vm'.ip <= Len(vm.instructions) ]_vars

====
